---- MODULE Spec2Model ----
(***************************************************************************)
(* The agent turn-execution loop of the FastAPI + LangGraph + MCP starter: *)
(* the compiled graph of app/agent/graph.py (nodes "agent" and "tools",    *)
(* the conditional edge should_continue), the tools the ToolNode of        *)
(* app/agent/nodes.py dispatches to, and the server-sent-event generator   *)
(* stream_agent_response of app/api/streaming.py.                          *)
(*                                                                         *)
(* Two runs of the same turn are kept side by side: "stream" is driven by  *)
(* stream_agent_response through graph.astream, "batch" by graph.ainvoke.  *)
(* Both receive the same replies of the language model and the same tool   *)
(* scheduling, each in a world (TODO store) of its own.                    *)
(***************************************************************************)
EXTENDS Integers, Sequences, FiniteSets, TLC

VARIABLES
    llm,        \* behaviour of the model backend during this turn
    messages,   \* AgentState["messages"], per run
    pc,         \* per run: node scheduled next ("agent", "tools"), "end", "raised"
    step,       \* per run: supersteps of the graph executed so far
    results,    \* per run: ToolNode outputs of the running tools superstep
    todos,      \* per run: todo_simple._todos (insertion-ordered dict)
    next_id,    \* per run: todo_simple._next_id
    pending,    \* update yielded by graph.astream, not yet handled
    events,     \* server-sent events yielded by stream_agent_response
    spc,        \* stream_agent_response: "running" or "closed"
    offered,    \* per run: what llm_with_tools.ainvoke was last called with
    _todos,     \* todo_simple._todos of the process, shared by its sessions
    _next_id,   \* todo_simple._next_id of the process
    solo,       \* per session: the store had the session been the only one
    db,         \* the todos table behind app/mcp/tools/todo.py
    last,       \* the last TODO operation and what it returned
    adds,       \* add_todo calls since the process started
    config,     \* the file at MCPClientManager.config_path, as it reads
    servers,    \* MCPClientManager.servers: name -> MCPServerConfig
    sessions,   \* MCPClientManager.sessions: the names that hold a session
    tools,      \* MCPClientManager.tools: name -> tools of that server
    mpc,        \* where the manager is in its life
    attempt,    \* per server: how its _connect_server goes and has gone
    invoked,    \* the last call_tool: when, on which server, how it went
    lifespan,   \* where lifespan(app) of app/main.py stands
    yields,     \* times lifespan(app) has yielded to the application
    setups,     \* checkpointers lifespan(app) has set out to initialise
    app_state,  \* app.state.mcp_manager: "unset", "manager" or "None"
    fcall,      \* the tool function under call and its arguments
    fret,       \* what that call returned or raised
    threads,    \* per thread: where it is in add_todo, and its locals
    shared      \* the globals of todo_simple the threads work on

agentVars ==
    <<llm, messages, pc, step, results, todos, next_id, pending, events, spc,
      offered>>

storeVars == <<_todos, _next_id, solo, db, last, adds>>

managerVars ==
    <<config, servers, sessions, tools, mpc, attempt, invoked, lifespan,
      app_state, yields, setups>>

toolVars == <<fcall, fret>>

threadVars == <<threads, shared>>

vars == <<agentVars, storeVars, managerVars, toolVars, threadVars>>

\* What the steps of each part leave alone.
notAgentVars == <<storeVars, managerVars, toolVars, threadVars>>
notStoreVars == <<agentVars, managerVars, toolVars, threadVars>>
notManagerVars == <<agentVars, storeVars, toolVars, threadVars>>
notToolVars == <<agentVars, storeVars, managerVars, threadVars>>
notThreadVars == <<agentVars, storeVars, managerVars, toolVars>>

Runs == {"stream", "batch"}

-----------------------------------------------------------------------------
(* Bounds of the model *)

\* Most tool requests one assistant message carries.
MaxCalls == 2
\* Most tool requests a well-behaved model issues during one turn.
MaxRequests == 3

\* Most add_todo calls in the life of one process.
MaxAdds == 2

\* Most servers listed in the configuration file.
MaxServers == 2

\* graph.astream / graph.ainvoke are called without a config: the supersteps
\* of one run are limited by langgraph's default recursion_limit.
RecursionLimit == 25

-----------------------------------------------------------------------------
(* Small helpers *)

Last(s) == s[Len(s)]

RECURSIVE SeqSum(_)
SeqSum(s) == IF s = <<>> THEN 0 ELSE Head(s) + SeqSum(Tail(s))

SelectIdx(s, P(_)) == { i \in 1..Len(s) : P(s[i]) }

\* The last n elements of s (all of s when it is shorter).
Suffix(s, n) ==
    IF n >= Len(s) THEN s ELSE SubSeq(s, Len(s) - n + 1, Len(s))

SeqsUpTo(S, n) == UNION { [1..k -> S] : k \in 0..n }

-----------------------------------------------------------------------------
(* Tool requests and messages *)

\* A tool call as the model emits it: tool name and arguments.  sarg is the
\* string argument (task, expression, city), iarg the integer one (todo_id).
Req(name, sarg, iarg) == [name |-> name, sarg |-> sarg, iarg |-> iarg]

\* The tools create_tool_node registers with the ToolNode.
ToolNames ==
    { "add_todo_tool", "list_todos_tool", "complete_todo_tool",
      "delete_todo_tool", "calculate_tool", "get_weather_tool" }

\* Requests a model may issue in a turn that terminates.
ToolMenu ==
    { Req("add_todo_tool", "t", 0),
      Req("complete_todo_tool", "", 1),
      Req("calculate_tool", "5 / 0", 0),
      Req("no_such_tool", "", 0) }

\* Requests a model that never stops asking for tools repeats.
LoopMenu ==
    ToolMenu \cup
    { Req("list_todos_tool", "", 0),
      Req("delete_todo_tool", "", 1),
      Req("calculate_tool", "2 + 2", 0),
      Req("calculate_tool", "2 +", 0),
      Req("get_weather_tool", "London", 0) }

HumanMessage(content) ==
    [role |-> "user", content |-> content, tool_calls |-> <<>>]

\* tool_calls: sequence of [id, name, sarg, iarg]
AIMessage(content, tool_calls) ==
    [role |-> "assistant", content |-> content, tool_calls |-> tool_calls]

ToolMessage(req, status, content) ==
    [role |-> "tool", tool_call_id |-> req.id, name |-> req.name,
     status |-> status, content |-> content]

\* Number of tool requests carried by the messages of a history.
Issued(msgs) ==
    SeqSum([i \in 1..Len(msgs) |->
               IF msgs[i].role = "assistant" THEN Len(msgs[i].tool_calls) ELSE 0])

-----------------------------------------------------------------------------
(* app/mcp/tools/todo_simple.py: the in-memory TODO store *)

\* What a handler returns or raises with: one shape for every tool.
Value(kind, items, text, n) ==
    [kind |-> kind, items |-> items, text |-> text, n |-> n]

Returned(value, td, nid) ==
    [raised |-> FALSE, value |-> value, todos |-> td, next_id |-> nid]

\* raise ValueError(text): the store is left as it is.
Raised(text, n, td, nid) ==
    [raised |-> TRUE, value |-> Value("ValueError", <<>>, text, n),
     todos |-> td, next_id |-> nid]

HasKey(td, id) == \E i \in 1..Len(td) : td[i].id = id

KeyIndex(td, id) == CHOOSE i \in 1..Len(td) : td[i].id = id

\* _todos[key] = item: a key already present keeps its place in the dict.
DictSet(td, item) ==
    IF HasKey(td, item.id)
    THEN [td EXCEPT ![KeyIndex(td, item.id)] = item]
    ELSE Append(td, item)

\* del _todos[key]
DictDel(td, id) == SelectSeq(td, LAMBDA t : t.id # id)

\* add_todo that numbers a new item by the size of the store.
add_todo_by_size(td, nid, task) ==
    LET todo == [id |-> Len(td) + 1, task |-> task, completed |-> FALSE]
    IN  Returned(Value("todo", <<todo>>, "", 0), DictSet(td, todo), nid + 1)

add_todo(td, nid, task) ==
    LET todo == [id |-> nid, task |-> task, completed |-> FALSE]
    IN  Returned(Value("todo", <<todo>>, "", 0), DictSet(td, todo), nid + 1)

list_todos(td, nid) ==
    Returned(Value("todos", td, "", 0), td, nid)

\* complete_todo that creates the item it does not find.
complete_todo_upsert(td, nid, todo_id) ==
    LET todo == [id |-> todo_id, task |-> "", completed |-> TRUE]
        td2  == IF HasKey(td, todo_id)
                THEN [td EXCEPT ![KeyIndex(td, todo_id)].completed = TRUE]
                ELSE Append(td, todo)
    IN  Returned(Value("todo", <<td2[KeyIndex(td2, todo_id)]>>, "", 0), td2, nid)

complete_todo(td, nid, todo_id) ==
    IF ~HasKey(td, todo_id)
    THEN Raised("TODO not found", todo_id, td, nid)
    ELSE LET i    == KeyIndex(td, todo_id)
             td2  == [td EXCEPT ![i].completed = TRUE]
         IN  Returned(Value("todo", <<td2[i]>>, "", 0), td2, nid)

\* delete_todo that removes the oldest item, whatever the id asked for.
delete_todo_oldest(td, nid, todo_id) ==
    IF ~HasKey(td, todo_id)
    THEN Raised("TODO not found", todo_id, td, nid)
    ELSE Returned(Value("message", <<>>, "TODO deleted", todo_id),
                  Tail(td), nid)

delete_todo(td, nid, todo_id) ==
    IF ~HasKey(td, todo_id)
    THEN Raised("TODO not found", todo_id, td, nid)
    ELSE Returned(Value("message", <<>>, "TODO deleted", todo_id),
                  DictDel(td, todo_id), nid)

\* _todos.clear(): _next_id is left as it is.
clear_todos(td, nid) ==
    Returned(Value("message", <<>>, "All TODOs cleared", 0), <<>>, nid)

-----------------------------------------------------------------------------
(* app/mcp/tools/todo.py: the TODO store kept in the database *)

\* The todos table: its rows, the last value of the sequence behind the
\* primary key, and the time datetime.utcnow() gives.  same_ops tells that
\* the table has received the operations the in-memory store has received,
\* from the empty store on.
Table(rows, seq, same_ops, now) ==
    [rows |-> rows, seq |-> seq, same_ops |-> same_ops, now |-> now]

\* A row of the table.  created_at is written with the insert and never
\* again; it is left out.
Row(id, task, completed, updated_at) ==
    [id |-> id, task |-> task, completed |-> completed, updated_at |-> updated_at]

\* The dict the functions of todo.py build from a row.
Visible(row) == [id |-> row.id, task |-> row.task, completed |-> row.completed]

\* What an operation on the table returns or raises with, and the table after.
DbReturned(value, d) == [raised |-> FALSE, value |-> value, db |-> d]

DbRaised(text, n, d) ==
    [raised |-> TRUE, value |-> Value("ValueError", <<>>, text, n), db |-> d]

\* select(Todo).where(Todo.id == todo_id), scalar_one_or_none()
RowsWithId(d, todo_id) == { row \in d.rows : row.id = todo_id }

\* The orders in which a SELECT without ORDER BY may return the rows.
RowOrders(rows) ==
    { o \in [1..Cardinality(rows) -> rows] :
        \A i, j \in 1..Cardinality(rows) : i # j => o[i] # o[j] }

\* Todo(task=task), commit, refresh: the database gives the id, the default
\* of updated_at the time.
todo_add_todo(d, task) ==
    LET row == Row(d.seq + 1, task, FALSE, d.now)
    IN  DbReturned(Value("todo", <<Visible(row)>>, "", 0),
                   Table(d.rows \cup {row}, d.seq + 1, d.same_ops, d.now))

\* select(Todo) has no ORDER BY: every order of the rows is a possible result.
todo_list_todos(d) ==
    { DbReturned(Value("todos", [i \in 1..Len(o) |-> Visible(o[i])], "", 0), d) :
        o \in RowOrders(d.rows) }

\* todo.completed = True and todo.updated_at = datetime.utcnow(), whatever
\* the row held.
todo_complete_todo(d, todo_id) ==
    IF RowsWithId(d, todo_id) = {}
    THEN DbRaised("TODO with id not found", todo_id, d)
    ELSE LET row  == CHOOSE x \in RowsWithId(d, todo_id) : TRUE
             row2 == Row(row.id, row.task, TRUE, d.now)
         IN  DbReturned(Value("todo", <<Visible(row2)>>, "", 0),
                        Table((d.rows \ {row}) \cup {row2}, d.seq, d.same_ops, d.now))

todo_delete_todo(d, todo_id) ==
    IF RowsWithId(d, todo_id) = {}
    THEN DbRaised("TODO with id not found", todo_id, d)
    ELSE LET row == CHOOSE x \in RowsWithId(d, todo_id) : TRUE
         IN  DbReturned(Value("message", <<>>, "TODO deleted successfully", todo_id),
                        Table(d.rows \ {row}, d.seq, d.same_ops, d.now))

-----------------------------------------------------------------------------
(* app/mcp/tools/calculator.py *)

Abs(x) == IF x < 0 THEN -x ELSE x

RECURSIVE Gcd(_, _)
Gcd(a, b) == IF b = 0 THEN a ELSE Gcd(b, a % b)

RECURSIVE IntPow(_, _)
IntPow(a, k) == IF k = 0 THEN 1 ELSE a * IntPow(a, k - 1)

\* A float, kept as the fraction num/den in lowest terms with den > 0.
Float(num, den) ==
    LET sgn == IF den < 0 THEN -1 ELSE 1
        g   == Gcd(Abs(num), Abs(den))
    IN  [num |-> (sgn * num) \div g, den |-> Abs(den) \div g]

\* ast.Constant with the type of its value: a number, a string or None.
Const(v) == [t |-> "Constant", ty |-> "num", v |-> v]
ConstOf(ty) == [t |-> "Constant", ty |-> ty, v |-> 0]
BinOp(op, l, r) == [t |-> "BinOp", op |-> op, l |-> l, r |-> r]
UnaryOp(op, operand) == [t |-> "UnaryOp", op |-> op, operand |-> operand]
Name == [t |-> "Name"]

\* A whole number as python parses it: the minus sign is an operator.
Lit(a) == IF a < 0 THEN UnaryOp("USub", Const(-a)) ELSE Const(a)

\* The binary operators of python by their symbol.
Symbols == {"+", "-", "*", "/", "**", "^", "%", "//"}

OpOf(sym) ==
    CASE sym = "+"  -> "Add"
      [] sym = "-"  -> "Sub"
      [] sym = "*"  -> "Mult"
      [] sym = "/"  -> "Div"
      [] sym = "**" -> "Pow"
      [] sym = "^"  -> "BitXor"
      [] sym = "%"  -> "Mod"
      [] OTHER      -> "FloorDiv"

\* Whole numbers written in the expressions.
MaxOperand == 5
Operands == (-MaxOperand)..MaxOperand

\* The text "a sym b".
ExprOf(a, sym, b) == ToString(a) \o " " \o sym \o " " \o ToString(b)

\* The tree of "a sym b": ** binds tighter than the minus sign on its left.
TreeOf(a, sym, b) ==
    IF sym = "**" /\ a < 0
    THEN UnaryOp("USub", BinOp("Pow", Const(-a), Lit(b)))
    ELSE BinOp(OpOf(sym), Lit(a), Lit(b))

\* Text and tree of the expressions of one operator or one number.
Parsed ==
    { <<ExprOf(a, sym, b), TreeOf(a, sym, b)>> :
            a \in Operands, sym \in Symbols, b \in Operands }
    \cup { <<ToString(a), Lit(a)>> : a \in Operands }
    \cup { <<"+2", UnaryOp("UAdd", Const(2))>>,
           <<"x", Name>>,
           <<"'a'", ConstOf("str")>>,
           <<"None", ConstOf("None")>>,
           <<"2 ** 1024", BinOp("Pow", Const(2), Const(1024))>>,
           <<"2 ^ (1 / 0)",
             BinOp("BitXor", Const(2), BinOp("Div", Const(1), Const(0)))>>,
           <<"x / 0", BinOp("Div", Name, Const(0))>> }

\* Texts that are no expression.
Malformed == {"", "2 +", "2 3", "(1"}

Expressions == { p[1] : p \in Parsed } \cup Malformed

\* ast.parse(expression, mode='eval'): the tree, or a SyntaxError.
ast_parse(expression) ==
    IF \E p \in Parsed : p[1] = expression
    THEN [error |-> "", body |-> (CHOOSE p \in Parsed : p[1] = expression)[2]]
    ELSE [error |-> "SyntaxError", body |-> Const(0)]

OPERATORS == {"Add", "Sub", "Mult", "Div", "Pow", "USub"}

\* Exponent from which the power of a float of magnitude 2 or more is out of
\* the range of a float.
FloatMaxExp == 1024

\* operator.add, sub, mul, truediv, pow on floats.  The exponents met are
\* whole numbers.
\* [exc, v]
Apply(op, l, r) ==
    CASE op = "Add"  -> [exc |-> "", v |-> Float(l.num * r.den + r.num * l.den, l.den * r.den)]
      [] op = "Sub"  -> [exc |-> "", v |-> Float(l.num * r.den - r.num * l.den, l.den * r.den)]
      [] op = "Mult" -> [exc |-> "", v |-> Float(l.num * r.num, l.den * r.den)]
      [] op = "Div"  ->
            IF r.num = 0
            THEN [exc |-> "ZeroDivisionError", v |-> Float(0, 1)]
            ELSE [exc |-> "", v |-> Float(l.num * r.den, l.den * r.num)]
      [] OTHER ->
            IF r.num < 0 /\ l.num = 0
            THEN [exc |-> "ZeroDivisionError", v |-> Float(0, 1)]
            ELSE IF r.num >= FloatMaxExp /\ Abs(l.num) >= 2 * l.den
            THEN [exc |-> "OverflowError", v |-> Float(0, 1)]
            ELSE IF r.num < 0
            THEN [exc |-> "", v |-> Float(IntPow(l.den, -r.num), IntPow(l.num, -r.num))]
            ELSE [exc |-> "", v |-> Float(IntPow(l.num, r.num), IntPow(l.den, r.num))]

RECURSIVE _eval_expr(_)
\* [exc, v]: the exception raised ("" when none) and the value.
_eval_expr(node) ==
    IF node.t = "Constant" THEN
        CASE node.ty = "num" -> [exc |-> "", v |-> Float(node.v, 1)]
          [] node.ty = "str" -> [exc |-> "ValueError", v |-> Float(0, 1)]
          [] OTHER           -> [exc |-> "TypeError", v |-> Float(0, 1)]
    ELSE IF node.t = "BinOp" THEN
        LET left  == _eval_expr(node.l)
            right == _eval_expr(node.r)
        IN  IF left.exc # "" THEN left
            ELSE IF right.exc # "" THEN right
            ELSE IF node.op \notin OPERATORS THEN [exc |-> "ValueError", v |-> Float(0, 1)]
            ELSE Apply(node.op, left.v, right.v)
    ELSE IF node.t = "UnaryOp" THEN
        LET operand == _eval_expr(node.operand) IN
        IF operand.exc # "" THEN operand
        ELSE IF node.op \notin OPERATORS THEN [exc |-> "ValueError", v |-> Float(0, 1)]
        ELSE [exc |-> "", v |-> Float(-operand.v.num, operand.v.den)]
    ELSE [exc |-> "ValueError", v |-> Float(0, 1)]

\* raise of an exception that is no ValueError.
RaisedAs(exc, text, td, nid) ==
    [raised |-> TRUE, value |-> Value(exc, <<>>, text, 0),
     todos |-> td, next_id |-> nid]

\* A calculate without its except clauses.
calculate_bare(expression, td, nid) ==
    LET tree == ast_parse(expression) IN
    IF tree.error = "SyntaxError"
    THEN RaisedAs("SyntaxError", "invalid syntax", td, nid)
    ELSE LET r == _eval_expr(tree.body) IN
         IF r.exc = ""
         THEN Returned(Value("calculation", <<r.v>>, expression, 0), td, nid)
         ELSE RaisedAs(r.exc, "", td, nid)

\* Every failure leaves calculate as a ValueError; the text tells them apart.
\* The result is the float in items.
calculate(expression, td, nid) ==
    LET tree == ast_parse(expression) IN
    IF tree.error = "SyntaxError"
    THEN Raised("Invalid expression syntax", 0, td, nid)
    ELSE LET r == _eval_expr(tree.body) IN
         CASE r.exc = "" ->
                Returned(Value("calculation", <<r.v>>, expression, 0), td, nid)
           [] r.exc = "ZeroDivisionError" ->
                Raised("Division by zero", 0, td, nid)
           [] OTHER ->
                Raised("Calculation error", 0, td, nid)

-----------------------------------------------------------------------------
(* app/mcp/tools/weather.py *)

\* What the weather provider does with one request.  A body of status 200
\* is well-formed, lacks a key or a list item ("200 malformed"), holds a
\* value of another type where a dict or list is read ("200 wrong type"), or
\* is no JSON at all ("200 not json").
ProviderOutcomes ==
    {"200", "200 malformed", "200 wrong type", "200 not json",
     "404", "401", "500", "timeout", "request error"}

\* Provider outcomes met while the agent loop runs.
AgentProviderOutcomes == {"200", "404", "500", "timeout"}

\* The keys of the dict returned and where in the body each is read.
WeatherFields ==
    [city |-> "name", country |-> "sys.country", temperature |-> "main.temp",
     feels_like |-> "main.feels_like", condition |-> "weather.0.main",
     description |-> "weather.0.description", humidity |-> "main.humidity",
     wind_speed |-> "wind.speed"]

get_weather(city, outcome, td, nid) ==
    CASE outcome = "404" -> Raised("City not found", 0, td, nid)
      [] outcome = "401" -> Raised("Invalid API key", 0, td, nid)
      [] outcome = "500" -> Raised("Weather API error", 500, td, nid)
      [] outcome = "timeout" ->
            Raised("Weather API request timed out", 0, td, nid)
      [] outcome = "request error" ->
            Raised("Weather API request failed", 0, td, nid)
      [] outcome = "200 malformed" ->
            Raised("Unexpected weather API response format", 0, td, nid)
      [] outcome = "200 wrong type" ->
            RaisedAs("TypeError", "", td, nid)
      [] outcome = "200 not json" ->
            RaisedAs("JSONDecodeError", "", td, nid)
      [] OTHER -> Returned(Value("weather", <<WeatherFields>>, city, 0), td, nid)

-----------------------------------------------------------------------------
(* app/mcp/client.py: MCPServerConfig and MCPClientManager *)

\* An entry of "servers" in the configuration file.  is_dict tells whether
\* the entry is a JSON object; an entry that is none has no .get.
Entry(name, is_dict, type, enabled) ==
    [name |-> name, is_dict |-> is_dict, type |-> type, enabled |-> enabled]

\* The file at config_path.  kind: "missing" (no such file), "unreadable"
\* (open raises), "malformed" (json.load raises), "not_object" (the JSON
\* value, or its "servers", is not an object), "object" (servers: the
\* entries of "servers", none when the key is absent or the object empty).
ConfigFile(kind, entries) == [kind |-> kind, servers |-> entries]

\* MCPServerConfig(name, config)
MCPServerConfig(name, type, enabled) ==
    [name |-> name, type |-> type, enabled |-> enabled]

\* The fallback of _load_config.
LocalOnly == <<MCPServerConfig("local", "builtin", TRUE)>>

\* _load_config with the fallback taken for an empty list of servers too.
_load_config_strict(cfg) ==
    IF cfg.kind # "object" THEN LocalOnly
    ELSE IF cfg.servers = <<>> THEN LocalOnly
    ELSE IF \E i \in 1..Len(cfg.servers) : ~cfg.servers[i].is_dict
    THEN LocalOnly
    ELSE [i \in 1..Len(cfg.servers) |->
            MCPServerConfig(cfg.servers[i].name, cfg.servers[i].type,
                            cfg.servers[i].enabled)]

\* _load_config: self.servers after it.  A missing file gives the built-in
\* server; an exception anywhere in the try block (open, json.load, .get,
\* .items, MCPServerConfig of an entry) replaces whatever was loaded by the
\* built-in server; otherwise the servers are the entries of the file.
_load_config(cfg) ==
    IF cfg.kind = "missing" THEN LocalOnly
    ELSE IF cfg.kind \in {"unreadable", "malformed", "not_object"} THEN LocalOnly
    ELSE IF \E i \in 1..Len(cfg.servers) : ~cfg.servers[i].is_dict
    THEN LocalOnly
    ELSE [i \in 1..Len(cfg.servers) |->
            MCPServerConfig(cfg.servers[i].name, cfg.servers[i].type,
                            cfg.servers[i].enabled)]

\* d[k] = v on a dict kept as a function.
DictPut(d, k, v) ==
    [x \in (DOMAIN d) \cup {k} |-> IF x = k THEN v ELSE d[x]]

\* The enabled servers connect_all skips as built-in, and those it connects.
BuiltinEnabled(srv) ==
    { srv[i].name : i \in { j \in 1..Len(srv) :
                               srv[j].enabled /\ srv[j].type = "builtin" } }

\* A connect_all that does not skip the disabled servers.
ExternalEnabled_any(srv) ==
    { srv[i].name : i \in { j \in 1..Len(srv) : srv[j].type # "builtin" } }

ExternalEnabled(srv) ==
    { srv[i].name : i \in { j \in 1..Len(srv) :
                               srv[j].enabled /\ srv[j].type # "builtin" } }

\* What session.list_tools() of a server returns.
ProviderTools(name) ==
    CASE name = "fs"  -> <<"read_file">>
      [] name = "web" -> <<"search">>
      [] OTHER        -> <<>>

\* How one _connect_server may go: it stores a session and the tools, or it
\* raises TimeoutError (asyncio.timeout(30)), or another exception.
ConnectOutcomes == {"ok", "timeout", "error"}

\* asyncio.gather(*tasks) without return_exceptions.
return_exceptions_off == FALSE

\* asyncio.gather(*tasks, return_exceptions=True)
return_exceptions == TRUE

\* The last call_tool: the life stage of the manager when it was made, the
\* server named, whether session.call_tool of that server was reached, and
\* the error raised ("" when none).
ToolCall(when, server, reached, error) ==
    [when |-> when, server |-> server, reached |-> reached, error |-> error]

NoCall == ToolCall("", "", FALSE, "")

\* call_tool(server_name, ...) on a manager with these sessions.
call_tool(when, sess, server_name) ==
    IF server_name \notin sess
    THEN ToolCall(when, server_name, FALSE, "not connected")
    ELSE ToolCall(when, server_name, TRUE, "")

\* disconnect_all without the two clear() calls.
disconnect_all_keep(sess, tls) == [sessions |-> sess, tools |-> tls]

\* disconnect_all: self.sessions.clear(), self.tools.clear().
disconnect_all(sess, tls) == [sessions |-> {}, tools |-> <<>>]

-----------------------------------------------------------------------------
(* app/agent/nodes.py: the tools wrapped for the ToolNode *)

\* get_weather_tool answers without calling the provider when no key is set.
get_weather_tool(city, api_key, outcome, td, nid) ==
    IF api_key = ""
    THEN Returned(Value("error", <<>>, "Weather API key not configured", 0),
                  td, nid)
    ELSE get_weather(city, outcome, td, nid)

\* The wrapped tool of that name run on the arguments of the request.
InvokeTool(req, api_key, outcome, td, nid) ==
    CASE req.name = "add_todo_tool"      -> add_todo(td, nid, req.sarg)
      [] req.name = "list_todos_tool"    -> list_todos(td, nid)
      [] req.name = "complete_todo_tool" -> complete_todo(td, nid, req.iarg)
      [] req.name = "delete_todo_tool"   -> delete_todo(td, nid, req.iarg)
      [] req.name = "calculate_tool"     -> calculate(req.sarg, td, nid)
      [] OTHER -> get_weather_tool(req.sarg, api_key, outcome, td, nid)

\* ToolNode(tools, handle_tool_errors=False)
\* A ToolNode that lets a name it does not know leave the node as an error.
ToolNodeRunOne_raise_unknown(req, api_key, outcome, td, nid) ==
    IF req.name \notin ToolNames
    THEN [escaped |-> TRUE,
          message |-> ToolMessage(req, "error",
                         Value("invalid_tool", <<>>, req.name, 0)),
          todos |-> td, next_id |-> nid]
    ELSE LET out == InvokeTool(req, api_key, outcome, td, nid) IN
         [escaped |-> FALSE,
          message |-> ToolMessage(req,
                         IF out.raised THEN "error" ELSE "success", out.value),
          todos |-> out.todos, next_id |-> out.next_id]

handle_tool_errors_off == FALSE

\* ToolNode(tools) is built with the default error handling: an exception
\* of a tool is caught and answered, not raised out of the node.
handle_tool_errors == TRUE

\* ToolNode(tools) runs one tool call: a name it does not know and an
\* exception of the tool both become a ToolMessage of status "error"; the
\* message always answers the id of the call.
\* [escaped, message, todos, next_id]
ToolNodeRunOne(req, api_key, outcome, td, nid) ==
    IF req.name \notin ToolNames
    THEN [escaped |-> FALSE,
          message |-> ToolMessage(req, "error",
                         Value("invalid_tool", <<>>, req.name, 0)),
          todos |-> td, next_id |-> nid]
    ELSE LET out == InvokeTool(req, api_key, outcome, td, nid) IN
         [escaped |-> out.raised /\ ~handle_tool_errors,
          message |-> ToolMessage(req,
                         IF out.raised THEN "error" ELSE "success", out.value),
          todos |-> out.todos, next_id |-> out.next_id]

-----------------------------------------------------------------------------
(* app/agent/nodes.py: call_model and should_continue *)

ApologyText == "I apologize, but I encountered an issue processing your request. Please try again."
ErrorText == "Error: model backend failure"

Min(a, b) == IF a < b THEN a ELSE b

\* One reply of llm_with_tools.ainvoke: an exception, or a message with a
\* content ("" when empty) and tool calls.
Raise == [raise |-> TRUE, content |-> "", tool_calls |-> <<>>]
Reply(content, tool_calls) ==
    [raise |-> FALSE, content |-> content, tool_calls |-> tool_calls]

\* What the model backend may answer to a history.  A model that terminates
\* issues at most MaxRequests requests in the turn; the other one asks for the
\* same tool again on every call.
Replies(env, msgs) ==
    IF env.mode = "always_tool"
    THEN { Reply("", <<env.req>>) }
    ELSE {Raise} \cup
         { Reply(c, tc) :
             c \in {"", "text"},
             tc \in SeqsUpTo(ToolMenu, Min(MaxCalls, MaxRequests - Issued(msgs))) }

\* The provider gives every tool call an id of its own.
WithIds(msgs, tool_calls) ==
    [k \in 1..Len(tool_calls) |->
        [id |-> Issued(msgs) + k, name |-> tool_calls[k].name,
         sarg |-> tool_calls[k].sarg, iarg |-> tool_calls[k].iarg]]

\* The tools call_model binds to the model with llm.bind_tools(tools).
BoundTools ==
    { "add_todo_tool", "list_todos_tool", "complete_todo_tool",
      "delete_todo_tool", "calculate_tool", "get_weather_tool" }

\* llm_with_tools.ainvoke(state["messages"]): what the model is called with.
ModelInput(msgs) == [messages |-> msgs, tools |-> BoundTools]

\* A call_model that hands on whatever the model returned.
call_model_as_returned(msgs, reply) ==
    IF reply.raise
    THEN <<AIMessage(ErrorText, <<>>)>>
    ELSE <<AIMessage(reply.content, WithIds(msgs, reply.tool_calls))>>

\* call_model: the update {"messages": [...]} the node returns.
call_model(msgs, reply) ==
    IF reply.raise
    THEN <<AIMessage(ErrorText, <<>>)>>
    ELSE IF reply.content = "" /\ reply.tool_calls = <<>>
    THEN <<AIMessage(ApologyText, <<>>)>>
    ELSE <<AIMessage(reply.content, WithIds(msgs, reply.tool_calls))>>

\* A channel without a reducer: the update takes the place of the value.
add_messages_replace(msgs, update) == update

\* add_messages, the reducer of AgentState.messages.
add_messages(msgs, update) == msgs \o update

\* should_continue that never routes to the tools.
should_continue_never(msgs) == "end"

should_continue(msgs) ==
    IF Last(msgs).role = "assistant" /\ Last(msgs).tool_calls # <<>>
    THEN "continue"
    ELSE "end"

\* add_conditional_edges("agent", should_continue, {...})
AgentEdge(msgs) ==
    IF should_continue(msgs) = "continue" THEN "tools" ELSE "end"

\* add_edge("tools", "agent")
ToolsEdge == "agent"

\* The tool calls a tools superstep serves: those of the last message.
CallsOf(msgs) ==
    IF Last(msgs).role = "assistant" THEN Last(msgs).tool_calls ELSE <<>>

-----------------------------------------------------------------------------
(* app/api/streaming.py *)

NoValue == Value("", <<>>, "", 0)

Event(type, name, sarg, iarg, content, result) ==
    [type |-> type, name |-> name, sarg |-> sarg, iarg |-> iarg,
     content |-> content, result |-> result]

ToolCallEvent(call) == Event("tool_call", call.name, call.sarg, call.iarg, "", NoValue)
ToolResultEvent(m) == Event("tool_result", m.name, "", 0, "", m.content)
AnswerEvent(content) == Event("answer", "", "", 0, content, NoValue)
DoneEvent == Event("done", "", "", 0, "", NoValue)
ErrorEvent == Event("error", "", "", 0, "exception", NoValue)

\* The handler with "if content" in place of "elif content": an answer event
\* for every assistant message that has a content.
EventsFor_answer_always(update) ==
    IF update.node = "agent"
    THEN IF update.messages = <<>> THEN <<>>
         ELSE LET last_message == Last(update.messages) IN
              IF last_message.role # "assistant" THEN <<>>
              ELSE [k \in 1..Len(last_message.tool_calls) |->
                        ToolCallEvent(last_message.tool_calls[k])]
                   \o (IF last_message.content # ""
                       THEN <<AnswerEvent(last_message.content)>> ELSE <<>>)
    ELSE LET tool_msgs == SelectSeq(update.messages, LAMBDA m : m.role = "tool")
         IN  [k \in 1..Len(tool_msgs) |-> ToolResultEvent(tool_msgs[k])]

\* The events stream_agent_response yields for one item of graph.astream.
EventsFor(update) ==
    IF update.node = "agent"
    THEN IF update.messages = <<>> THEN <<>>
         ELSE LET last_message == Last(update.messages) IN
              IF last_message.role # "assistant" THEN <<>>
              ELSE IF last_message.tool_calls # <<>>
              THEN [k \in 1..Len(last_message.tool_calls) |->
                        ToolCallEvent(last_message.tool_calls[k])]
              ELSE IF last_message.content # ""
              THEN <<AnswerEvent(last_message.content)>>
              ELSE <<>>
    ELSE LET tool_msgs == SelectSeq(update.messages, LAMBDA m : m.role = "tool")
         IN  [k \in 1..Len(tool_msgs) |-> ToolResultEvent(tool_msgs[k])]

\* A handler that takes the messages it reports out of the state.
HandleUpdate_consuming(evts, msgs, update) ==
    [events |-> evts \o EventsFor(update),
     messages |-> SubSeq(msgs, 1, Len(msgs) - Len(update.messages))]

\* The body of the async for loop: it yields events and reads the update
\* only, the state of the graph stays as it is.
HandleUpdate(evts, msgs, update) ==
    [events |-> evts \o EventsFor(update), messages |-> msgs]

\* A stream that runs the graph ahead of its consumer.
AstreamReady_eager(r, pend) == TRUE

\* graph.astream hands an item over and runs the next superstep only when
\* the consumer asks for the following item.
AstreamReady(r, pend) == r = "stream" => pend = <<>>

-----------------------------------------------------------------------------
(* The runs *)

\* The surroundings of a turn: how the model backend behaves, whether
\* settings.weather_api_key is set, what the weather provider answers, and
\* the tools of the external servers mcp_manager is connected to.
Env(mode, req, key, provider, mcp_tools) ==
    [mode |-> mode, req |-> req, weather_api_key |-> key, provider |-> provider,
     mcp_tools |-> mcp_tools]

WeatherReq == Req("get_weather_tool", "London", 0)

Envs ==
    { Env("bounded", Req("", "", 0), "key", "200", {"read_file"}) }
    \cup { Env("always_tool", q, "key", "200", {}) : q \in LoopMenu }
    \cup { Env("always_tool", WeatherReq, "key", o, {}) : o \in AgentProviderOutcomes }
    \cup { Env("always_tool", WeatherReq, "", "200", {}) }

\* One TODO store: the dict and the counter.
Store(td, nid) == [todos |-> td, next_id |-> nid]

\* The sessions whose agents call the TODO tools of the process.
Sessions == {"a", "b"}

\* The text of a task.
Tasks == {"t"}

Outcome(o) == [raised |-> o.raised, value |-> o.value]

NoOutcome == [raised |-> FALSE, value |-> NoValue]

\* A TODO operation as it was run: who asked, the outcome on the store of the
\* process (out), on the store the session would have alone (alone) and on
\* the table (durable).
Op(session, op, sarg, iarg, out, alone, durable) ==
    [session |-> session, op |-> op, sarg |-> sarg, iarg |-> iarg,
     out |-> out, alone |-> alone, durable |-> durable]

\* The module todo_simple as imported, and an empty table.
StoreInit ==
    /\ _todos = <<>>
    /\ _next_id = 1
    /\ solo = [s \in Sessions |-> Store(<<>>, 1)]
    /\ db = Table({}, 0, TRUE, 0)
    /\ last = Op("", "", "", 0, NoOutcome, NoOutcome, NoOutcome)
    /\ adds = 0

\* No manager has been created.
ManagerIdle ==
    /\ config = [kind |-> "missing", servers |-> <<>>]
    /\ servers = <<>>
    /\ sessions = {}
    /\ tools = <<>>
    /\ mpc = "idle"
    /\ attempt = <<>>
    /\ invoked = NoCall
    /\ lifespan = "idle"
    /\ app_state = "unset"
    /\ yields = 0
    /\ setups = 0

\* No tool function is under call.
ToolIdle ==
    /\ fcall = [tool |-> "", expression |-> "", city |-> "", provider |-> ""]
    /\ fret = NoOutcome

\* No thread is inside add_todo.
ThreadIdle ==
    /\ threads = <<>>
    /\ shared = [todos |-> <<>>, next_id |-> 1]

Init ==
    /\ StoreInit
    /\ ManagerIdle
    /\ ToolIdle
    /\ ThreadIdle
    /\ llm \in Envs
    /\ messages = [r \in Runs |-> <<HumanMessage("hello")>>]
    /\ pc = [r \in Runs |-> "agent"]
    /\ step = [r \in Runs |-> 0]
    /\ results = [r \in Runs |-> <<>>]
    /\ todos = [r \in Runs |-> <<>>]
    /\ next_id = [r \in Runs |-> 1]
    /\ pending = <<>>
    /\ events = <<>>
    /\ spc = "running"
    /\ offered = [r \in Runs |-> [messages |-> <<>>, tools |-> {}]]

\* A graph driven by a task of its own, whatever happens to the stream.
CanStep_detached(r, node) ==
    /\ pc[r] = node
    /\ step[r] < RecursionLimit
    /\ AstreamReady(r, pending)

\* A superstep may start: something is scheduled, the consumer (if any) has
\* asked for the next item and the recursion limit is not used up.
CanStep(r, node) ==
    /\ pc[r] = node
    /\ step[r] < RecursionLimit
    /\ AstreamReady(r, pending)
    /\ r = "stream" => spc = "running"

\* Superstep of node "agent": call_model, then the conditional edge.
AgentNode ==
    /\ \A r \in Runs : CanStep(r, "agent")
    /\ \E reply \in Replies(llm, messages["batch"]) :
         LET upd(r) == call_model(messages[r], reply) IN
         /\ messages' = [r \in Runs |-> add_messages(messages[r], upd(r))]
         /\ pc' = [r \in Runs |-> AgentEdge(add_messages(messages[r], upd(r)))]
         /\ pending' = <<[node |-> "agent", messages |-> upd("stream")]>>
    /\ offered' = [r \in Runs |-> ModelInput(messages[r])]
    /\ step' = [r \in Runs |-> step[r] + 1]
    /\ UNCHANGED notAgentVars
    /\ UNCHANGED <<llm, results, todos, next_id, events, spc>>

\* Inside the superstep of node "tools": the ToolNode runs the calls of the
\* last message side by side; one of them, any, runs to its result.  An
\* exception that leaves the ToolNode ends the run.
RunTool ==
    /\ \A r \in Runs : CanStep(r, "tools")
    /\ \E i \in 1..Len(CallsOf(messages["batch"])) :
         /\ \A r \in Runs : i \in 1..Len(CallsOf(messages[r])) /\ i \notin DOMAIN results[r]
         /\ LET out(r) == ToolNodeRunOne(CallsOf(messages[r])[i], llm.weather_api_key,
                                         llm.provider, todos[r], next_id[r])
            IN  /\ results' = [r \in Runs |->
                                 IF out(r).escaped THEN results[r]
                                 ELSE results[r] @@ (i :> out(r).message)]
                /\ pc' = [r \in Runs |-> IF out(r).escaped THEN "raised" ELSE pc[r]]
                /\ todos' = [r \in Runs |-> out(r).todos]
                /\ next_id' = [r \in Runs |-> out(r).next_id]
    /\ UNCHANGED notAgentVars
    /\ UNCHANGED <<offered, llm, messages, step, pending, events, spc>>

\* Outputs gathered in the opposite order.
ToolNodeOutputs_reversed(calls, res) ==
    [k \in 1..Len(calls) |-> res[Len(calls) + 1 - k]]

\* The first output given for every call.
ToolNodeOutputs_first(calls, res) == [k \in 1..Len(calls) |-> res[1]]

\* The outputs of the ToolNode, in the order of the calls.
ToolNodeOutputs(calls, res) == [k \in 1..Len(calls) |-> res[k]]

\* End of the superstep of node "tools": every call has its result, the
\* messages are added to the state and the edge leads back to "agent".
ToolsNodeReturn ==
    /\ \A r \in Runs : /\ CanStep(r, "tools")
                       /\ DOMAIN results[r] = 1..Len(CallsOf(messages[r]))
    /\ LET upd(r) == ToolNodeOutputs(CallsOf(messages[r]), results[r]) IN
         /\ messages' = [r \in Runs |-> add_messages(messages[r], upd(r))]
         /\ pending' = <<[node |-> "tools", messages |-> upd("stream")]>>
    /\ pc' = [r \in Runs |-> ToolsEdge]
    /\ step' = [r \in Runs |-> step[r] + 1]
    /\ results' = [r \in Runs |-> <<>>]
    /\ UNCHANGED notAgentVars
    /\ UNCHANGED <<offered, llm, todos, next_id, events, spc>>

\* The recursion limit is used up while a node is still scheduled: the run
\* raises GraphRecursionError.
OutOfSteps ==
    /\ \A r \in Runs : /\ pc[r] \in {"agent", "tools"}
                       /\ step[r] >= RecursionLimit
                       /\ AstreamReady(r, pending)
    /\ spc = "running"
    /\ pc' = [r \in Runs |-> "raised"]
    /\ UNCHANGED notAgentVars
    /\ UNCHANGED <<offered, llm, messages, step, results, todos, next_id, pending, events, spc>>

\* stream_agent_response handles the item graph.astream yielded.
StreamHandle ==
    /\ spc = "running"
    /\ pending # <<>>
    /\ LET h == HandleUpdate(events, messages["stream"], pending[1]) IN
         /\ events' = h.events
         /\ messages' = [messages EXCEPT !["stream"] = h.messages]
    /\ pending' = <<>>
    /\ UNCHANGED notAgentVars
    /\ UNCHANGED <<offered, llm, pc, step, results, todos, next_id, spc>>

\* graph.astream is exhausted: the done event ends the stream.
StreamDone ==
    /\ spc = "running"
    /\ pending = <<>>
    /\ pc["stream"] = "end"
    /\ events' = Append(events, DoneEvent)
    /\ spc' = "closed"
    /\ UNCHANGED notAgentVars
    /\ UNCHANGED <<offered, llm, messages, pc, step, results, todos, next_id, pending>>

\* The done event yielded in a finally clause: after the error event too.
StreamError_then_done ==
    /\ spc = "running"
    /\ pending = <<>>
    /\ pc["stream"] = "raised"
    /\ events' = events \o <<ErrorEvent, DoneEvent>>
    /\ spc' = "closed"
    /\ UNCHANGED notAgentVars
    /\ UNCHANGED <<offered, llm, messages, pc, step, results, todos, next_id, pending>>

\* graph.astream raised: the except clause yields the error event.
StreamError ==
    /\ spc = "running"
    /\ pending = <<>>
    /\ pc["stream"] = "raised"
    /\ events' = Append(events, ErrorEvent)
    /\ spc' = "closed"
    /\ UNCHANGED notAgentVars
    /\ UNCHANGED <<offered, llm, messages, pc, step, results, todos, next_id, pending>>

Next ==
    \/ AgentNode
    \/ RunTool
    \/ ToolsNodeReturn
    \/ OutOfSteps
    \/ StreamHandle
    \/ StreamDone
    \/ StreamError

Spec == Init /\ [][Next]_vars

\* The caller drops the connection: the task that iterates
\* stream_agent_response is cancelled.  CancelledError and GeneratorExit are
\* no Exception: the except clause does not run and nothing is yielded.
Abort ==
    /\ spc = "running"
    /\ spc' = "cancelled"
    /\ UNCHANGED notAgentVars
    /\ UNCHANGED <<offered, llm, messages, pc, step, results, todos, next_id, pending, events>>

CancelNext ==
    \/ AgentNode
    \/ RunTool
    \/ ToolsNodeReturn
    \/ OutOfSteps
    \/ StreamHandle
    \/ StreamDone
    \/ StreamError
    \/ Abort

\* The streamed request with a caller that may go away at any moment.
CancelSpec == Init /\ [][CancelNext]_vars

-----------------------------------------------------------------------------
(* The TODO tools called by the sessions of one process *)

\* No turn of the agent loop is under way.
AgentIdle ==
    /\ llm = Env("bounded", Req("", "", 0), "key", "200", {})
    /\ messages = [r \in Runs |-> <<HumanMessage("hello")>>]
    /\ pc = [r \in Runs |-> "agent"]
    /\ step = [r \in Runs |-> 0]
    /\ results = [r \in Runs |-> <<>>]
    /\ todos = [r \in Runs |-> <<>>]
    /\ next_id = [r \in Runs |-> 1]
    /\ pending = <<>>
    /\ events = <<>>
    /\ spc = "running"
    /\ offered = [r \in Runs |-> [messages |-> <<>>, tools |-> {}]]

TodoInit ==
    /\ StoreInit
    /\ AgentIdle
    /\ ManagerIdle
    /\ ToolIdle
    /\ ThreadIdle

\* add_todo_tool(task) of session s / add_todo(task, session) on the table.
AddTodo ==
    /\ adds < MaxAdds
    /\ \E s \in Sessions, task \in Tasks :
         LET out   == add_todo(_todos, _next_id, task)
             alone == add_todo(solo[s].todos, solo[s].next_id, task)
             dur   == todo_add_todo(db, task)
         IN  /\ _todos' = out.todos
             /\ _next_id' = out.next_id
             /\ solo' = [solo EXCEPT ![s] = Store(alone.todos, alone.next_id)]
             /\ db' = dur.db
             /\ last' = Op(s, "add", task, 0, Outcome(out), Outcome(alone), Outcome(dur))
    /\ adds' = adds + 1
    /\ UNCHANGED notStoreVars

\* list_todos_tool() of session s / list_todos(session) on the table.
ListTodos ==
    /\ \E s \in Sessions :
         LET out   == list_todos(_todos, _next_id)
             alone == list_todos(solo[s].todos, solo[s].next_id)
         IN  \E dur \in todo_list_todos(db) :
             /\ _todos' = out.todos
             /\ _next_id' = out.next_id
             /\ solo' = [solo EXCEPT ![s] = Store(alone.todos, alone.next_id)]
             /\ db' = dur.db
             /\ last' = Op(s, "list", "", 0, Outcome(out), Outcome(alone), Outcome(dur))
    /\ UNCHANGED adds
    /\ UNCHANGED notStoreVars

\* complete_todo_tool(todo_id) of session s / complete_todo(todo_id, session).
CompleteTodo ==
    /\ \E s \in Sessions, todo_id \in 1..MaxAdds :
         LET out   == complete_todo(_todos, _next_id, todo_id)
             alone == complete_todo(solo[s].todos, solo[s].next_id, todo_id)
             dur   == todo_complete_todo(db, todo_id)
         IN  /\ _todos' = out.todos
             /\ _next_id' = out.next_id
             /\ solo' = [solo EXCEPT ![s] = Store(alone.todos, alone.next_id)]
             /\ db' = dur.db
             /\ last' = Op(s, "complete", "", todo_id,
                           Outcome(out), Outcome(alone), Outcome(dur))
    /\ UNCHANGED adds
    /\ UNCHANGED notStoreVars

\* delete_todo_tool(todo_id) of session s / delete_todo(todo_id, session).
DeleteTodo ==
    /\ \E s \in Sessions, todo_id \in 1..MaxAdds :
         LET out   == delete_todo(_todos, _next_id, todo_id)
             alone == delete_todo(solo[s].todos, solo[s].next_id, todo_id)
             dur   == todo_delete_todo(db, todo_id)
         IN  /\ _todos' = out.todos
             /\ _next_id' = out.next_id
             /\ solo' = [solo EXCEPT ![s] = Store(alone.todos, alone.next_id)]
             /\ db' = dur.db
             /\ last' = Op(s, "delete", "", todo_id,
                           Outcome(out), Outcome(alone), Outcome(dur))
    /\ UNCHANGED adds
    /\ UNCHANGED notStoreVars

\* clear_todos() of todo_simple, as the set-up of the tests calls it: the one
\* store of the process is emptied, for every session; the table is not
\* touched and no longer goes side by side with the store.
ClearTodos ==
    /\ LET out == clear_todos(_todos, _next_id) IN
         /\ _todos' = out.todos
         /\ _next_id' = out.next_id
         /\ solo' = [s \in Sessions |->
                        LET alone == clear_todos(solo[s].todos, solo[s].next_id)
                        IN  Store(alone.todos, alone.next_id)]
         /\ last' = Op("", "clear", "", 0, Outcome(out), Outcome(out), NoOutcome)
    /\ db' = [db EXCEPT !.same_ops = FALSE]
    /\ UNCHANGED adds
    /\ UNCHANGED notStoreVars

TodoNext ==
    \/ AddTodo
    \/ ListTodos
    \/ CompleteTodo
    \/ DeleteTodo
    \/ ClearTodos

TodoSpec == TodoInit /\ [][TodoNext]_vars

\* Readings of the clock the table is stamped with.
MaxTime == 2

\* Time passes: datetime.utcnow() gives a later time from now on.
Tick ==
    /\ db.now < MaxTime
    /\ db' = [db EXCEPT !.now = db.now + 1]
    /\ UNCHANGED <<_todos, _next_id, solo, last, adds>>
    /\ UNCHANGED notStoreVars

ClockNext ==
    \/ AddTodo
    \/ CompleteTodo
    \/ Tick

\* add_todo and complete_todo with the time going by between the calls.
ClockSpec == TodoInit /\ [][ClockNext]_vars

-----------------------------------------------------------------------------
(* The MCP client manager in the lifespan of the application *)

\* The name of the i-th server of a configuration file.
ServerName(i) ==
    CASE i = 1 -> "fs"
      [] i = 2 -> "web"
      [] i = 3 -> "local"
      [] OTHER -> "extra"

\* What an entry of "servers" may be, its name apart.
EntryShapes ==
    { [is_dict |-> FALSE, type |-> "", enabled |-> FALSE] }
    \cup { [is_dict |-> TRUE, type |-> t, enabled |-> e] :
             t \in {"stdio", "builtin"}, e \in BOOLEAN }

EntryLists ==
    UNION { { [i \in 1..k |-> Entry(ServerName(i), f[i].is_dict, f[i].type,
                                     f[i].enabled)] :
                f \in [1..k -> EntryShapes] } : k \in 0..MaxServers }

\* The configuration files the manager may find.
Configs ==
    { ConfigFile(k, <<>>) :
        k \in {"missing", "unreadable", "malformed", "not_object"} }
    \cup { ConfigFile("object", es) : es \in EntryLists }

ManagerInit ==
    /\ StoreInit
    /\ AgentIdle
    /\ ToolIdle
    /\ ThreadIdle
    /\ config \in Configs
    /\ servers = <<>>
    /\ sessions = {}
    /\ tools = <<>>
    /\ mpc = "none"
    /\ attempt = <<>>
    /\ invoked = NoCall
    /\ lifespan = "start"
    /\ app_state = "unset"
    /\ yields = 0
    /\ setups = 0

\* MCPClientManager(app_settings.mcp_servers_config): __init__ and
\* _load_config.
CreateManager ==
    /\ lifespan = "start"
    /\ servers' = _load_config(config)
    /\ mpc' = "loaded"
    /\ lifespan' = "created"
    /\ UNCHANGED <<config, sessions, tools, attempt, invoked, app_state, yields, setups>>
    /\ UNCHANGED notManagerVars

\* __aenter__, connect_all up to the gather: a built-in server gets an
\* empty list of tools, every other enabled server a _connect_server task.
ConnectAll ==
    /\ lifespan = "created"
    /\ tools' = [n \in BuiltinEnabled(servers) |-> <<>>]
    /\ attempt' = [n \in ExternalEnabled(servers) |-> "running"]
    /\ mpc' = "connecting"
    /\ lifespan' = "connecting"
    /\ UNCHANGED <<config, servers, sessions, invoked, app_state, yields, setups>>
    /\ UNCHANGED notManagerVars

\* One _connect_server task ends, in any order with the others: with the
\* session and the tools of the server stored, or with an exception, which
\* gather keeps as a result.  Without return_exceptions the exception
\* leaves connect_all and __aenter__ at once.
ConnectServer ==
    /\ lifespan = "connecting"
    /\ \E n \in DOMAIN attempt, o \in ConnectOutcomes :
         /\ attempt[n] = "running"
         /\ attempt' = [attempt EXCEPT ![n] = o]
         /\ IF o = "ok"
            THEN /\ sessions' = sessions \cup {n}
                 /\ tools' = DictPut(tools, n, ProviderTools(n))
                 /\ UNCHANGED <<mpc, lifespan>>
            ELSE /\ UNCHANGED <<sessions, tools>>
                 /\ IF return_exceptions
                    THEN UNCHANGED <<mpc, lifespan>>
                    ELSE mpc' = "connect_raised" /\ lifespan' = "handling"
    /\ UNCHANGED <<config, servers, invoked, app_state, yields, setups>>
    /\ UNCHANGED notManagerVars

\* The gather is over: connect_all and __aenter__ return, and the body of
\* the async with stores the manager in app.state.
ConnectAllReturn ==
    /\ lifespan = "connecting"
    /\ \A n \in DOMAIN attempt : attempt[n] # "running"
    /\ mpc' = "ready"
    /\ lifespan' = "entered"
    /\ app_state' = "manager"
    /\ UNCHANGED <<config, servers, sessions, tools, attempt, invoked, yields, setups>>
    /\ UNCHANGED notManagerVars

\* AsyncPostgresSaver.from_conn_string and checkpointer.setup inside the
\* async with: they succeed and lifespan yields, or they raise and the
\* exception unwinds the async with.
CheckpointerSetup ==
    /\ lifespan = "entered"
    /\ setups' = setups + 1
    /\ \E ok \in BOOLEAN :
         /\ lifespan' = IF ok THEN "serving" ELSE "unwinding"
         /\ yields' = IF ok THEN yields + 1 ELSE yields
    /\ UNCHANGED <<config, servers, sessions, tools, mpc, attempt, invoked,
                   app_state>>
    /\ UNCHANGED notManagerVars

\* The application shuts down: lifespan resumes after its yield and leaves
\* the async with of the checkpointer.
ShutdownSignal ==
    /\ lifespan = "serving"
    /\ lifespan' = "closing"
    /\ UNCHANGED <<config, servers, sessions, tools, mpc, attempt, invoked,
                   app_state, yields, setups>>
    /\ UNCHANGED notManagerVars

\* While the application runs, its server throws an Exception into lifespan
\* at the yield: the exception unwinds both async with.
RaiseWhileServing ==
    /\ lifespan = "serving"
    /\ lifespan' = "unwinding"
    /\ UNCHANGED <<config, servers, sessions, tools, mpc, attempt, invoked,
                   app_state, yields, setups>>
    /\ UNCHANGED notManagerVars

\* __aexit__ of the checkpointer raises while lifespan shuts down.
RaiseWhileClosing ==
    /\ lifespan = "closing"
    /\ lifespan' = "unwinding"
    /\ UNCHANGED <<config, servers, sessions, tools, mpc, attempt, invoked,
                   app_state, yields, setups>>
    /\ UNCHANGED notManagerVars

\* __aexit__ of the manager, with an exception under way or without:
\* disconnect_all.  The exception goes on to the except clause of lifespan.
ManagerExit ==
    /\ lifespan \in {"unwinding", "closing"}
    /\ LET d == disconnect_all(sessions, tools) IN
         /\ sessions' = d.sessions
         /\ tools' = d.tools
    /\ mpc' = "down"
    /\ lifespan' = IF lifespan = "unwinding" THEN "handling" ELSE "stopped"
    /\ UNCHANGED <<config, servers, attempt, invoked, app_state, yields, setups>>
    /\ UNCHANGED notManagerVars

\* except Exception of lifespan, whenever the exception was raised inside
\* the try: app.state.mcp_manager = None, then the checkpointer once more;
\* lifespan yields when that succeeds and raises when it does not.  A yield
\* after the first one is refused by the context manager around lifespan.
Fallback ==
    /\ lifespan = "handling"
    /\ app_state' = "None"
    /\ setups' = setups + 1
    /\ \E ok \in BOOLEAN :
         /\ lifespan' = IF ~ok THEN "failed"
                        ELSE IF yields = 0 THEN "serving_fallback"
                        ELSE "yielded_again"
         /\ yields' = IF ok THEN yields + 1 ELSE yields
    /\ UNCHANGED <<config, servers, sessions, tools, mpc, attempt, invoked>>
    /\ UNCHANGED notManagerVars

\* The application shuts down after the fallback.
FallbackShutdown ==
    /\ lifespan = "serving_fallback"
    /\ lifespan' = "stopped"
    /\ UNCHANGED <<config, servers, sessions, tools, mpc, attempt, invoked,
                   app_state, yields, setups>>
    /\ UNCHANGED notManagerVars

\* An Exception thrown into lifespan at the yield of the except clause, or
\* raised by the checkpointer of the fallback on its way out: no try
\* surrounds it, lifespan raises.
RaiseWhileFallback ==
    /\ lifespan = "serving_fallback"
    /\ lifespan' = "failed"
    /\ UNCHANGED <<config, servers, sessions, tools, mpc, attempt, invoked,
                   app_state, yields, setups>>
    /\ UNCHANGED notManagerVars

\* call_tool(server_name, tool_name, arguments) by a holder of the manager,
\* while it is connected or after it has been shut down.
CallTool ==
    /\ mpc \in {"ready", "down"}
    /\ \E i \in 1..(MaxServers + 1) :
         invoked' = call_tool(mpc, sessions, ServerName(i))
    /\ UNCHANGED <<config, servers, sessions, tools, mpc, attempt, lifespan,
                   app_state, yields, setups>>
    /\ UNCHANGED notManagerVars

ManagerNext ==
    \/ CreateManager
    \/ ConnectAll
    \/ ConnectServer
    \/ ConnectAllReturn
    \/ CheckpointerSetup
    \/ ShutdownSignal
    \/ RaiseWhileServing
    \/ RaiseWhileClosing
    \/ ManagerExit
    \/ Fallback
    \/ FallbackShutdown
    \/ RaiseWhileFallback
    \/ CallTool

ManagerSpec == ManagerInit /\ [][ManagerNext]_vars

-----------------------------------------------------------------------------
(* The tool functions called on their own *)

Cities == {"London", "Nowhere"}

\* A call of calculate or of get_weather with its arguments, the latter with
\* what the provider does.
CalculateCall(expression) ==
    [tool |-> "calculate", expression |-> expression, city |-> "", provider |-> ""]

WeatherCall(city, outcome) ==
    [tool |-> "get_weather", expression |-> "", city |-> city, provider |-> outcome]

ToolInit ==
    /\ StoreInit /\ AgentIdle /\ ManagerIdle /\ ThreadIdle
    /\ fcall \in { CalculateCall(e) : e \in Expressions }
                 \cup { WeatherCall(c, o) : c \in Cities, o \in ProviderOutcomes }
    /\ fret = NoOutcome

\* The call has returned or raised.
Called == fret # NoOutcome

\* calculate(expression)
Calculate ==
    /\ fcall.tool = "calculate"
    /\ ~Called
    /\ fret' = Outcome(calculate(fcall.expression, <<>>, 1))
    /\ UNCHANGED fcall
    /\ UNCHANGED notToolVars

\* await get_weather(city, api_key)
GetWeather ==
    /\ fcall.tool = "get_weather"
    /\ ~Called
    /\ fret' = Outcome(get_weather(fcall.city, fcall.provider, <<>>, 1))
    /\ UNCHANGED fcall
    /\ UNCHANGED notToolVars

ToolNext ==
    \/ Calculate
    \/ GetWeather

ToolSpec == ToolInit /\ [][ToolNext]_vars

-----------------------------------------------------------------------------
(* add_todo of the in-memory store run by several threads *)

\* The ToolNode runs a tool that is a plain function in a worker thread; the
\* calls of one assistant message and of several requests run side by side,
\* all on the _todos and _next_id of the module.  A thread can be suspended
\* between any two reads or writes of a global.

\* Threads that call add_todo.
MaxThreads == 3

ThreadInit == StoreInit /\ AgentIdle /\ ManagerIdle /\ ToolIdle /\ ThreadIdle

\* A thread inside add_todo: where it is, its local todo, the value of
\* _next_id it loaded for the increment.
Thread(at, todo, tmp) == [at |-> at, todo |-> todo, tmp |-> tmp]

\* _todos[key] = item on the dict kept as a sequence of keys and items.
KeyPut(td, key, item) ==
    IF \E i \in 1..Len(td) : td[i].key = key
    THEN [i \in 1..Len(td) |->
            IF td[i].key = key THEN [key |-> key, item |-> item] ELSE td[i]]
    ELSE Append(td, [key |-> key, item |-> item])

\* A thread enters add_todo(task); the task names the thread.
ThreadCall ==
    /\ Len(threads) < MaxThreads
    /\ threads' = Append(threads,
                     Thread("build", [id |-> 0, task |-> Len(threads) + 1,
                                      completed |-> FALSE], 0))
    /\ UNCHANGED shared
    /\ UNCHANGED notThreadVars

\* todo = {"id": _next_id, "task": task, "completed": False}
ThreadBuild ==
    /\ \E i \in 1..Len(threads) :
         /\ threads[i].at = "build"
         /\ threads' = [threads EXCEPT ![i].at = "insert",
                                       ![i].todo.id = shared.next_id]
    /\ UNCHANGED shared
    /\ UNCHANGED notThreadVars

\* _todos[_next_id] = todo
ThreadInsert ==
    /\ \E i \in 1..Len(threads) :
         /\ threads[i].at = "insert"
         /\ shared' = [shared EXCEPT
                          !.todos = KeyPut(shared.todos, shared.next_id, threads[i].todo)]
         /\ threads' = [threads EXCEPT ![i].at = "load"]
    /\ UNCHANGED notThreadVars

\* _next_id += 1: the global is loaded ...
ThreadLoad ==
    /\ \E i \in 1..Len(threads) :
         /\ threads[i].at = "load"
         /\ threads' = [threads EXCEPT ![i].at = "store", ![i].tmp = shared.next_id]
    /\ UNCHANGED shared
    /\ UNCHANGED notThreadVars

\* ... and stored incremented; return todo.
ThreadStore ==
    /\ \E i \in 1..Len(threads) :
         /\ threads[i].at = "store"
         /\ shared' = [shared EXCEPT !.next_id = threads[i].tmp + 1]
         /\ threads' = [threads EXCEPT ![i].at = "returned"]
    /\ UNCHANGED notThreadVars

ThreadNext ==
    \/ ThreadCall
    \/ ThreadBuild
    \/ ThreadInsert
    \/ ThreadLoad
    \/ ThreadStore

ThreadSpec == ThreadInit /\ [][ThreadNext]_vars

-----------------------------------------------------------------------------
(* app/core/auth.py and Settings.api_keys_list of app/config.py *)

\* Strings are sequences of characters here.
\* str.strip()
RECURSIVE strip(_)
strip(str) ==
    IF str # <<>> /\ Head(str) = " " THEN strip(Tail(str))
    ELSE IF str # <<>> /\ Last(str) = " " THEN strip(SubSeq(str, 1, Len(str) - 1))
    ELSE str

\* str.split(",")
RECURSIVE split(_)
split(str) ==
    IF \A i \in 1..Len(str) : str[i] # ","
    THEN <<str>>
    ELSE LET i == CHOOSE k \in 1..Len(str) :
                     str[k] = "," /\ \A m \in 1..(k - 1) : str[m] # ","
         IN  <<SubSeq(str, 1, i - 1)>> \o split(SubSeq(str, i + 1, Len(str)))

\* An api_keys_list that keeps the blanks around the keys.
api_keys_list_raw(api_keys) ==
    IF api_keys = <<>> THEN <<>> ELSE split(api_keys)

\* Settings.api_keys_list
api_keys_list(api_keys) ==
    IF api_keys = <<>> THEN <<>>
    ELSE LET parts == split(api_keys) IN [i \in 1..Len(parts) |-> strip(parts[i])]

\* The header X-API-Key of a request: absent (None) or with a value.
NoHeader == [present |-> FALSE, value |-> <<>>]
HeaderOf(value) == [present |-> TRUE, value |-> value]

\* What verify_api_key returns, or the HTTPException it raises.
Accepted(key, text) == [raised |-> FALSE, value |-> Value("str", key, text, 0)]
Rejected(detail, status_code) ==
    [raised |-> TRUE, value |-> Value("HTTPException", <<>>, detail, status_code)]

verify_api_key(auth_enabled, api_keys, x_api_key) ==
    IF ~auth_enabled
    THEN Accepted(<<>>, "auth_disabled")
    ELSE IF ~x_api_key.present \/ x_api_key.value = <<>>
    THEN Rejected("Missing API key. Provide X-API-Key header.", 401)
    ELSE IF \A i \in 1..Len(api_keys_list(api_keys)) :
                api_keys_list(api_keys)[i] # x_api_key.value
    THEN Rejected("Invalid API key", 401)
    ELSE Accepted(x_api_key.value, "x_api_key")

\* Characters of the setting api_keys and of a header, and their number.
MaxKeyChars == 3
SettingChars == {"a", "b", ",", " "}
HeaderChars == {"a", "b"}

AuthCall(auth_enabled, api_keys, x_api_key) ==
    [tool |-> "verify_api_key", auth_enabled |-> auth_enabled,
     api_keys |-> api_keys, x_api_key |-> x_api_key]

AuthInit ==
    /\ StoreInit /\ AgentIdle /\ ManagerIdle /\ ThreadIdle
    /\ fcall \in { AuthCall(e, k, h) :
                      e \in BOOLEAN,
                      k \in SeqsUpTo(SettingChars, MaxKeyChars),
                      h \in {NoHeader} \cup
                            { HeaderOf(v) : v \in SeqsUpTo(HeaderChars, MaxKeyChars) } }
    /\ fret = NoOutcome

\* Depends(verify_api_key) of a request.
VerifyApiKey ==
    /\ fcall.tool = "verify_api_key"
    /\ fret = NoOutcome
    /\ fret' = verify_api_key(fcall.auth_enabled, fcall.api_keys, fcall.x_api_key)
    /\ UNCHANGED fcall
    /\ UNCHANGED notToolVars

AuthNext ==
    \/ VerifyApiKey

AuthSpec == AuthInit /\ [][AuthNext]_vars

-----------------------------------------------------------------------------
(* Properties of the agent loop *)

IsAssistant(m) == m.role = "assistant"
IsTool(m) == m.role = "tool"
HasToolCalls(m) == IsAssistant(m) /\ m.tool_calls # <<>>

\* The messages a step added at the end of the history of run r.
Added(old, new) == SubSeq(new, Len(old) + 1, Len(new))

\* Completed DECIDING/ACTING round trips: assistant messages that asked for
\* tools and have been answered.
RoundTrips(msgs) ==
    Cardinality({ i \in 1..(Len(msgs) - 1) :
                    HasToolCalls(msgs[i]) /\ IsTool(msgs[i + 1]) })

\* DECIDING steps run so far.
Decisions(msgs) == Cardinality(SelectIdx(msgs, IsAssistant))

CountType(evts, type) == Cardinality({ i \in 1..Len(evts) : evts[i].type = type })

\* C1: routing after a DECIDING step depends on the last message only: the
\* superstep of node "agent" appends one assistant message and leads to
\* "tools" exactly when that message carries tool calls, to the end
\* otherwise; the superstep of node "tools" always leads back to "agent".
C1_Routing ==
    [][ \A r \in Runs :
          /\ (pc[r] = "agent" /\ messages'[r] # messages[r]) =>
                /\ Len(Added(messages[r], messages'[r])) = 1
                /\ IsAssistant(Last(messages'[r]))
                /\ pc'[r] \in {"tools", "end"}
                /\ pc'[r] = "tools" <=> Last(messages'[r]).tool_calls # <<>>
          /\ (pc[r] = "agent" /\ pc'[r] # "agent") =>
                \/ messages'[r] # messages[r]
                \/ pc'[r] = "raised" /\ step[r] >= RecursionLimit
          /\ (pc[r] = "tools" /\ messages'[r] # messages[r]) => pc'[r] = "agent"
      ]_vars

\* C1 witness: a second DECIDING step has asked for tools and the loop is in
\* ACTING.
C1_Witness ==
    /\ pc["stream"] = "tools"
    /\ Decisions(messages["stream"]) = 2
    /\ HasToolCalls(Last(messages["stream"]))

\* C2: with a model that asks for a tool on every DECIDING step the run
\* fails on the step limit after exactly the configured maximum number of
\* DECIDING/ACTING round trips.
C2_StepLimitRoundTrips ==
    \A r \in Runs :
        pc[r] = "raised" => RoundTrips(messages[r]) = RecursionLimit

\* C3: when the model backend raised during a DECIDING step, the stream
\* carries exactly one error event and neither an answer nor a done event.
C3_ModelFailureIsError ==
    (/\ spc = "closed"
     /\ \E i \in 1..Len(messages["stream"]) :
           /\ IsAssistant(messages["stream"][i])
           /\ messages["stream"][i].content = ErrorText)
    => /\ CountType(events, "error") = 1
       /\ CountType(events, "answer") = 0
       /\ CountType(events, "done") = 0

\* C4: a tool whose handler raises does not end the turn: the ToolNode
\* answers the request with a tool message of status "error" carrying the
\* failure, the superstep leads back to DECIDING with that message in the
\* history, and the run fails only on the recursion limit.
C4_ToolFailureContinues ==
    [][ \A r \in Runs :
          /\ \A i \in (DOMAIN results'[r]) \ (DOMAIN results[r]) :
                LET req == CallsOf(messages[r])[i]
                    out == InvokeTool(req, llm.weather_api_key, llm.provider,
                                      todos[r], next_id[r])
                IN  (req.name \in ToolNames /\ out.raised) =>
                        /\ results'[r][i] = ToolMessage(req, "error", out.value)
                        /\ pc'[r] = "tools"
          /\ (pc[r] = "tools" /\ pc'[r] # "tools") =>
                \/ /\ pc'[r] = "agent"
                   /\ \A i \in DOMAIN results[r] :
                        \E j \in (Len(messages[r]) + 1)..Len(messages'[r]) :
                            messages'[r][j] = results[r][i]
                \/ pc'[r] = "raised" /\ step[r] >= RecursionLimit
      ]_vars

\* C4 witness: a failed complete_todo has been answered with an error
\* message, and the model has been called again after it.
C4_Witness ==
    /\ pc["stream"] = "end"
    /\ \E i \in 1..Len(messages["stream"]) :
          /\ IsTool(messages["stream"][i])
          /\ messages["stream"][i].name = "complete_todo_tool"
          /\ messages["stream"][i].status = "error"
          /\ messages["stream"][i].content.text = "TODO not found"

\* The ids of the tool calls of an assistant message, and the ids the
\* following n messages answer.
CallIds(m) == [k \in 1..Len(m.tool_calls) |-> m.tool_calls[k].id]
AnsweredIds(msgs, i, n) == [k \in 1..n |-> msgs[i + k].tool_call_id]

\* C5: the tool messages of an ACTING step answer the tool calls of the
\* preceding assistant message one to one and in the order of the calls.
C5_OneResultPerRequestInOrder ==
    \A r \in Runs : \A i \in 1..Len(messages[r]) :
        (HasToolCalls(messages[r][i]) /\ i < Len(messages[r])) =>
            LET n == Len(messages[r][i].tool_calls) IN
            /\ Len(messages[r]) >= i + n
            /\ \A k \in 1..n : IsTool(messages[r][i + k])
            /\ AnsweredIds(messages[r], i, n) = CallIds(messages[r][i])
            /\ \A k \in 1..n : messages[r][i + k].name = messages[r][i].tool_calls[k].name
            /\ Len(messages[r]) > i + n => IsAssistant(messages[r][i + n + 1])

\* C5 witness: add_todo and complete_todo(1) were asked for in this order on
\* a fresh store, complete_todo ran first (it found no item), and the two
\* answers stand in the order of the calls.
C5_Witness ==
    \E i \in 1..Len(messages["stream"]) :
        /\ HasToolCalls(messages["stream"][i])
        /\ Len(messages["stream"][i].tool_calls) = 2
        /\ Len(messages["stream"]) >= i + 2
        /\ messages["stream"][i].tool_calls[1].name = "add_todo_tool"
        /\ messages["stream"][i].tool_calls[2].name = "complete_todo_tool"
        /\ IsTool(messages["stream"][i + 1]) /\ IsTool(messages["stream"][i + 2])
        /\ messages["stream"][i + 1].status = "success"
        /\ messages["stream"][i + 2].status = "error"
        /\ todos["stream"] = <<[id |-> 1, task |-> "t", completed |-> FALSE]>>

(* Properties of the event stream *)

EventTypes(evts) == [k \in 1..Len(evts) |-> evts[k].type]

RECURSIVE ExpectedEvents(_, _)
\* The events a history calls for, from message i on: the tool calls of an
\* assistant message that asks for tools, the result of a tool message, the
\* answer of an assistant message that asks for none.
ExpectedEvents(msgs, i) ==
    IF i > Len(msgs) THEN <<>>
    ELSE LET m == msgs[i]
             here == IF IsAssistant(m)
                     THEN IF m.tool_calls # <<>>
                          THEN [k \in 1..Len(m.tool_calls) |-> ToolCallEvent(m.tool_calls[k])]
                          ELSE <<AnswerEvent(m.content)>>
                     ELSE IF IsTool(m) THEN <<ToolResultEvent(m)>>
                     ELSE <<>>
         IN  here \o ExpectedEvents(msgs, i + 1)

\* C6: a streamed turn that reaches DONE yields, round after round, the
\* tool_call events of the round and then its tool_result events, then one
\* answer event, then done; one tool call gives [tool_call, tool_result,
\* answer, done], none gives [answer, done].
C6_StreamSequence ==
    (spc = "closed" /\ pc["stream"] = "end") =>
        /\ events = ExpectedEvents(messages["stream"], 1) \o <<DoneEvent>>
        /\ CountType(events, "answer") = 1
        /\ events[Len(events) - 1].type = "answer"
        /\ Issued(messages["stream"]) = 1 =>
              EventTypes(events) = <<"tool_call", "tool_result", "answer", "done">>
        /\ Issued(messages["stream"]) = 0 =>
              EventTypes(events) = <<"answer", "done">>

\* C6 witness: a streamed turn of two rounds, the first with two tool calls
\* and a content beside them, has ended with done.
C6_Witness ==
    /\ spc = "closed" /\ pc["stream"] = "end"
    /\ RoundTrips(messages["stream"]) = 2
    /\ Len(messages["stream"][2].tool_calls) = 2
    /\ messages["stream"][2].content = "text"

TerminalEvents == { i \in 1..Len(events) : events[i].type \in {"done", "error"} }

\* C7: the stream ends with exactly one terminal event, the last one: done
\* when the graph finished, error when it raised, never both; and a stream
\* that is not closed can go on.
C7_OneTerminalEvent ==
    /\ Cardinality(TerminalEvents) <= 1
    /\ TerminalEvents # {} => TerminalEvents = {Len(events)}
    /\ spc = "closed" <=> TerminalEvents # {}
    /\ spc = "closed" =>
          /\ Last(events).type = "done" <=> pc["stream"] = "end"
          /\ Last(events).type = "error" <=> pc["stream"] = "raised"
    /\ spc # "closed" => ENABLED Next

\* C7 witness: the graph raised after tool results had been streamed, and
\* the stream has ended with the error event.
C7_Witness ==
    /\ spc = "closed" /\ pc["stream"] = "raised"
    /\ Last(events).type = "error"
    /\ CountType(events, "tool_result") > 0

\* C8: when a tool of a round has run, the stream already holds the
\* tool_call events of that round, one per call, in the order of the calls,
\* as its last events.
C8_ToolCallsBeforeTools ==
    (pc["stream"] = "tools" /\ results["stream"] # <<>>) =>
        LET calls == CallsOf(messages["stream"]) IN
        /\ Len(events) >= Len(calls)
        /\ Suffix(events, Len(calls)) = [k \in 1..Len(calls) |-> ToolCallEvent(calls[k])]

\* C8 witness: the second of two tools has run, the first has not.
C8_Witness ==
    /\ pc["stream"] = "tools"
    /\ Len(CallsOf(messages["stream"])) = 2
    /\ DOMAIN results["stream"] = {2}
    /\ CountType(events, "tool_call") = 2

\* Tool messages in a history.
ToolMessages(msgs) == Cardinality(SelectIdx(msgs, IsTool))

\* C9: the tool_result event of a tool is emitted as soon as that tool has
\* resolved: when a second tool of the round resolves, the result of the
\* first is in the stream.
C9_ResultOnResolve ==
    (pc["stream"] = "tools" /\ pending = <<>>) =>
        CountType(events, "tool_result") >=
            ToolMessages(messages["stream"]) + Cardinality(DOMAIN results["stream"]) - 1

HistoryOffered(r) ==
    LET n == Len(offered[r].messages) IN
    /\ n < Len(messages[r])
    /\ SubSeq(messages[r], 1, n) = offered[r].messages
    /\ IsAssistant(messages[r][n + 1])
    /\ \A j \in (n + 2)..Len(messages[r]) : ~IsAssistant(messages[r][j])

\* The full tool catalogue: the local tools and the tools discovered from
\* the connected external servers.
Catalogue == ToolNames \cup llm.mcp_tools

\* C11: every DECIDING step calls the model with the whole ordered message
\* history and with the full tool catalogue, the tools discovered from the
\* connected external servers included.
C11_FullCatalogueOffered ==
    \A r \in Runs :
        offered[r].tools # {} =>
            /\ HistoryOffered(r)
            /\ offered[r].tools = Catalogue

\* The history part alone: it holds in every state.
HistoryAlwaysOffered ==
    \A r \in Runs : offered[r].tools # {} => HistoryOffered(r)

\* The position of the last assistant message before position j (0: none).
PrevAssistant(msgs, j) ==
    LET before == { i \in 1..(j - 1) : IsAssistant(msgs[i]) }
    IN  IF before = {} THEN 0 ELSE CHOOSE i \in before : \A k \in before : k <= i

\* C12: the history is causally ordered in every reachable state: a tool
\* message comes after the assistant message that carries the request it
\* answers, with no other assistant message in between, and between two
\* consecutive assistant messages a request id has at most one tool message.
C12_CausalOrder ==
    \A r \in Runs : \A j \in 1..Len(messages[r]) :
        IsTool(messages[r][j]) =>
            LET i == PrevAssistant(messages[r], j) IN
            /\ i > 0
            /\ \E k \in 1..Len(messages[r][i].tool_calls) :
                  messages[r][i].tool_calls[k].id = messages[r][j].tool_call_id
            /\ \A j2 \in (i + 1)..Len(messages[r]) :
                  (/\ j2 # j
                   /\ IsTool(messages[r][j2])
                   /\ PrevAssistant(messages[r], j2) = i)
                  => messages[r][j2].tool_call_id # messages[r][j].tool_call_id

\* C12 witness: a turn has ended with three tool messages in its history,
\* two of them answering the two requests of one assistant message.
C12_Witness ==
    /\ pc["batch"] = "end"
    /\ ToolMessages(messages["batch"]) = 3
    /\ \E i \in 1..Len(messages["batch"]) :
          /\ HasToolCalls(messages["batch"][i])
          /\ Len(messages["batch"][i].tool_calls) = 2

\* C13: the history is append-only: every step leaves the messages already
\* in the history unchanged and in place and only adds at the end; the
\* length never decreases.
C13_AppendOnly ==
    [][ \A r \in Runs :
          /\ Len(messages'[r]) >= Len(messages[r])
          /\ SubSeq(messages'[r], 1, Len(messages[r])) = messages[r]
      ]_vars

\* C13 witness: the history has grown over two rounds of tools to the final
\* answer.
C13_Witness ==
    /\ pc["stream"] = "end"
    /\ Len(messages["stream"]) >= 6
    /\ RoundTrips(messages["stream"]) = 2

(* Properties of the TODO stores *)

\* The operations the agents of the sessions call.
SessionOps == {"add", "list", "complete", "delete"}

\* C14: sessions do not interfere: what a TODO tool returns to a session is
\* what it would return had the other sessions done nothing; a TODO added,
\* completed or deleted in one session does not change what list_todos or
\* add_todo returns in another.
C14_SessionsDoNotInterfere ==
    last.op \in SessionOps => last.out = last.alone

StoreIds(td) == { td[i].id : i \in 1..Len(td) }

\* The failure NotFound of a TODO operation on the in-memory store.
NotFound(out, todo_id) ==
    /\ out.raised
    /\ out.value = Value("ValueError", <<>>, "TODO not found", todo_id)

\* C15: add_todo gives sequential ids from 1: the k-th add returns the item
\* with id k, the given task and completed false; the ids in the store are
\* pairwise distinct; all of them are ids given so far, and the next add
\* gets an id above them, so an id freed by delete is not given again.
C15_SequentialIds ==
    /\ last.op = "add" =>
          /\ ~last.out.raised
          /\ last.out.value.kind = "todo"
          /\ last.out.value.items =
                 <<[id |-> adds, task |-> last.sarg, completed |-> FALSE]>>
    /\ \A i, j \in 1..Len(_todos) : i # j => _todos[i].id # _todos[j].id
    /\ StoreIds(_todos) \subseteq 1..adds
    /\ _next_id = adds + 1

\* C15 witness: the second add came after the first item had been removed
\* and got id 2.
C15_Witness ==
    /\ last.op = "add"
    /\ adds = 2
    /\ _todos = <<[id |-> 2, task |-> "t", completed |-> FALSE]>>

\* C16: after clear_todos the store is empty, and the add_todo that follows
\* it returns an item with id 1 and completed false.
C16_ClearThenFirstId ==
    [][ /\ last'.op = "clear" => _todos' = <<>>
        /\ (last.op = "clear" /\ last'.op = "add") =>
              /\ last'.out.value.items[1].id = 1
              /\ last'.out.value.items[1].completed = FALSE
      ]_vars

\* C17: complete_todo on an id in the store sets completed of that item and
\* returns it, leaving its id, its task and every other item as they were;
\* on an id not in the store it fails with NotFound and leaves the items and
\* the next id as they were.
C17_CompleteTodo ==
    [][ last'.op = "complete" =>
          IF HasKey(_todos, last'.iarg)
          THEN LET i == KeyIndex(_todos, last'.iarg) IN
               /\ ~last'.out.raised
               /\ Len(_todos') = Len(_todos)
               /\ _todos'[i] = [id |-> _todos[i].id, task |-> _todos[i].task,
                                completed |-> TRUE]
               /\ \A k \in 1..Len(_todos) : k # i => _todos'[k] = _todos[k]
               /\ last'.out.value.items = <<_todos'[i]>>
               /\ _next_id' = _next_id
          ELSE /\ NotFound(last'.out, last'.iarg)
               /\ _todos' = _todos
               /\ _next_id' = _next_id
      ]_vars

\* C17 witness: of two items the second has been completed, the first is
\* as it was added.
C17_Witness ==
    /\ last.op = "complete" /\ last.iarg = 2 /\ ~last.out.raised
    /\ _todos = <<[id |-> 1, task |-> "t", completed |-> FALSE],
                  [id |-> 2, task |-> "t", completed |-> TRUE]>>

\* C18: delete_todo on an id in the store removes that item and no other:
\* the list_todos that follows holds every other item unchanged and in its
\* place; on an id not in the store it fails with NotFound and leaves the
\* store as it was.
C18_DeleteTodo ==
    [][ last'.op = "delete" =>
          IF HasKey(_todos, last'.iarg)
          THEN /\ ~last'.out.raised
               /\ list_todos(_todos', _next_id').value.items =
                     SelectSeq(_todos, LAMBDA t : t.id # last'.iarg)
               /\ ~HasKey(_todos', last'.iarg)
               /\ _next_id' = _next_id
          ELSE /\ NotFound(last'.out, last'.iarg)
               /\ _todos' = _todos
               /\ _next_id' = _next_id
      ]_vars

\* C18 witness: of two items the second has been deleted, the first, which
\* had been completed, is still there.
C18_Witness ==
    /\ last.op = "delete" /\ last.iarg = 2 /\ ~last.out.raised
    /\ _todos = <<[id |-> 1, task |-> "t", completed |-> TRUE]>>

\* The items in the order in which they were added: ids go up.
InOrderAdded(items) ==
    \A i, j \in 1..Len(items) : i < j => items[i].id < items[j].id

\* list_todos of the in-memory store: all items, each once, in the order in
\* which they were added, the store left as it was.
ListInMemory ==
    [][ last'.op = "list" =>
          /\ ~last'.out.raised
          /\ last'.out.value.items = _todos
          /\ InOrderAdded(last'.out.value.items)
          /\ _todos' = _todos /\ _next_id' = _next_id
      ]_vars

\* C19: list_todos returns all items of the store, each once, in the order
\* in which they were added, after any add, complete and delete, and leaves
\* the store as it was: in the in-memory store and in the table.
C19_ListInOrderAdded ==
    [][ last'.op = "list" =>
          /\ last'.out.value.items = _todos
          /\ InOrderAdded(last'.out.value.items)
          /\ _todos' = _todos /\ _next_id' = _next_id
          /\ { last'.durable.value.items[i] :
                  i \in 1..Len(last'.durable.value.items) } =
                { Visible(row) : row \in db.rows }
          /\ Len(last'.durable.value.items) = Cardinality(db.rows)
          /\ InOrderAdded(last'.durable.value.items)
          /\ db' = db
      ]_vars

\* C20: run side by side on the same operations from the empty store, the
\* in-memory store and the table return the same results and the same
\* failures at every step.
C20_SameSemantics ==
    (db.same_ops /\ last.op \in SessionOps) => last.out = last.durable

(* Properties of the MCP client manager *)

\* The servers whose _connect_server succeeded.
Connected == { n \in DOMAIN attempt : attempt[n] = "ok" }

HoldsConnections ==
    /\ \A n \in Connected :
          /\ app_state = "manager"
          /\ n \in sessions
          /\ n \in DOMAIN tools
          /\ tools[n] = ProviderTools(n)
    /\ \A i \in 1..Len(servers) :
          ~servers[i].enabled => servers[i].name \notin sessions

\* Startup that went through the async with of the manager to its yield.
StartupPlain == lifespan = "serving" => HoldsConnections

\* C22: after startup has completed the application holds, for every
\* configured enabled external server that is reachable, a connection and
\* the discovered tools under the name of the server, and no connection
\* for a disabled server.
C22_StartupHoldsConnections ==
    lifespan \in {"serving", "serving_fallback"} => HoldsConnections

NothingToLoad(cfg) ==
    \/ cfg.kind # "object"
    \/ cfg.servers = <<>>
    \/ \E i \in 1..Len(cfg.servers) : ~cfg.servers[i].is_dict

\* The fallback for every file but the well-formed one without servers.
FallbackButEmpty ==
    (mpc # "none" /\ NothingToLoad(config) /\ config # ConfigFile("object", <<>>))
        => servers = LocalOnly

\* C24: the manager is created whatever the configuration file is, and when
\* the file is missing, unreadable, malformed or lists no server, its servers
\* are exactly the built-in server "local"; nothing partially loaded stays.
C24_ConfigFallback ==
    (mpc # "none" /\ NothingToLoad(config)) => servers = LocalOnly

(* Properties of tool calls with an unknown name and of cancellation *)

\* The message the ToolNode gives for a call of a tool it does not hold.
UnknownToolMessage(req) ==
    ToolMessage(req, "error", Value("invalid_tool", <<>>, req.name, 0))

\* C25: a tool call that names a tool the ToolNode does not hold does not
\* end the run: the ACTING step answers it with exactly one tool message
\* that says the tool is unknown, changes no todo, and leads back to
\* DECIDING.
C25_UnknownToolAnswered ==
    [][ \A r \in Runs :
          /\ \A i \in (DOMAIN results'[r]) \ (DOMAIN results[r]) :
                LET req == CallsOf(messages[r])[i] IN
                req.name \notin ToolNames =>
                    /\ results'[r][i] = UnknownToolMessage(req)
                    /\ pc'[r] = "tools"
                    /\ todos'[r] = todos[r] /\ next_id'[r] = next_id[r]
          /\ (pc[r] = "tools" /\ pc'[r] = "raised") => step[r] >= RecursionLimit
          /\ (pc[r] = "tools" /\ messages'[r] # messages[r]) =>
                /\ pc'[r] = "agent"
                /\ \A k \in 1..Len(CallsOf(messages[r])) :
                      LET req == CallsOf(messages[r])[k] IN
                      req.name \notin ToolNames =>
                          /\ Cardinality({ j \in (Len(messages[r]) + 1)..Len(messages'[r]) :
                                             messages'[r][j].tool_call_id = req.id }) = 1
                          /\ \E j \in (Len(messages[r]) + 1)..Len(messages'[r]) :
                                 messages'[r][j] = UnknownToolMessage(req)
      ]_vars

\* C25 witness: a call of an unknown tool has been answered and the model
\* has been called again after the answer.
C25_Witness ==
    \E i \in 1..(Len(messages["stream"]) - 1) :
        /\ IsTool(messages["stream"][i])
        /\ messages["stream"][i].status = "error"
        /\ messages["stream"][i].content.kind = "invalid_tool"
        /\ messages["stream"][i].content.text \notin ToolNames
        /\ \E j \in (i + 1)..Len(messages["stream"]) : IsAssistant(messages["stream"][j])

C27_CaretIsPower ==
    \A a, b \in 0..MaxOperand :
        (Called /\ fcall.tool = "calculate" /\ fcall.expression = ExprOf(a, "^", b)) =>
            /\ ~fret.raised
            /\ fret.value.kind = "calculation"
            /\ fret.value.text = fcall.expression
            /\ fret.value.items = <<Float(IntPow(a, b), 1)>>

\* What test_power checks: the power written with two stars.
PowerByStars ==
    \A a, b \in 0..MaxOperand :
        (Called /\ fcall.tool = "calculate" /\ fcall.expression = ExprOf(a, "**", b)) =>
            /\ ~fret.raised
            /\ fret.value.text = fcall.expression
            /\ fret.value.items = <<Float(IntPow(a, b), 1)>>

\* Expressions whose evaluation divides by zero.
DividingByZero ==
    { ExprOf(a, "/", 0) : a \in Operands }
    \cup { ExprOf(0, "**", b) : b \in (-MaxOperand)..(-1) }
    \cup { "2 ^ (1 / 0)" }

\* Expressions that are malformed or use what the calculator does not
\* support, and do not divide by zero.
NotSupported ==
    ({ ExprOf(a, sym, b) : a \in Operands, sym \in {"^", "%", "//"}, b \in Operands }
     \cup Malformed \cup {"+2", "x", "'a'", "None", "x / 0"})
    \ DividingByZero

WeatherFailures ==
    {"City not found", "Invalid API key", "Weather API error",
     "Weather API request timed out", "Weather API request failed",
     "Unexpected weather API response format"}

\* The mapping of the statuses, of the timeout and of a body of status 200
\* that is well-formed or lacks something.
WeatherMapped ==
    (Called /\ fcall.tool = "get_weather") =>
        /\ fcall.provider = "404" => (fret.raised /\ fret.value.text = "City not found")
        /\ fcall.provider = "401" => (fret.raised /\ fret.value.text = "Invalid API key")
        /\ fcall.provider = "timeout" =>
              (fret.raised /\ fret.value.text = "Weather API request timed out")
        /\ fcall.provider = "500" =>
              (fret.raised /\ fret.value.text = "Weather API error" /\ fret.value.n = 500)
        /\ fcall.provider = "200 malformed" =>
              (fret.raised /\ fret.value.text = "Unexpected weather API response format")
        /\ fcall.provider = "200" =>
              /\ ~fret.raised
              /\ fret.value.kind = "weather"
              /\ Cardinality(DOMAIN fret.value.items[1]) = 8

\* C29: get_weather maps every outcome of the provider to one result: 404,
\* 401, a timeout and any other status but 200 to their failure, 200 with a
\* well-formed body to the eight fields, and nothing that goes wrong leaves
\* get_weather as anything but one of its ValueErrors.
C29_WeatherOutcomes ==
    /\ WeatherMapped
    /\ (Called /\ fcall.tool = "get_weather" /\ fret.raised) =>
          /\ fret.value.kind = "ValueError"
          /\ fret.value.text \in WeatherFailures

(* Properties of add_todo run by several threads *)

AllReturned == \A i \in 1..Len(threads) : threads[i].at = "returned"

\* The item of a thread is in the store under its id, as the thread built it.
Stored(todo) ==
    \E k \in 1..Len(shared.todos) :
        /\ shared.todos[k].key = todo.id
        /\ shared.todos[k].item = todo

\* C30: when several threads have run add_todo side by side, the ids they
\* returned are pairwise distinct and every item added is in the store.
C30_ConcurrentAdds ==
    AllReturned =>
        /\ \A i, j \in 1..Len(threads) :
              i # j => threads[i].todo.id # threads[j].todo.id
        /\ \A i \in 1..Len(threads) : Stored(threads[i].todo)

(* Properties of lifespan *)

\* A failure before the first yield: the fallback yields once, and while the
\* application is served lifespan has yielded exactly once.
YieldsOnceAtStartup ==
    /\ lifespan \in {"serving", "serving_fallback"} => yields = 1
    /\ lifespan \in {"start", "created", "connecting", "entered"} => yields = 0
    /\ (lifespan = "handling" /\ yields = 0) => setups = 1

C32_SessionsOfEnabledExternal ==
    /\ \A n \in sessions :
          /\ n \in ExternalEnabled(servers)
          /\ n \in DOMAIN tools
    /\ \A i \in 1..Len(servers) :
          (servers[i].type = "builtin" \/ ~servers[i].enabled) =>
              servers[i].name \notin sessions

\* C32 witness: of two configured servers one is disabled and the other
\* has a session, and call_tool has reached it.
C32_Witness ==
    /\ sessions # {}
    /\ \E i \in 1..Len(servers) :
          ~servers[i].enabled /\ servers[i].type # "builtin"
    /\ invoked.reached
    /\ invoked.server \in sessions

(* Properties of call_model *)

\* C33: for a reply of the model with empty content and no tool calls
\* call_model adds the fixed apology instead; so every assistant message of
\* the history has content or tool calls, and a run that has reached its
\* end has an assistant message with content as its last message.
C33_NoEmptyAssistantMessage ==
    \A r \in Runs :
        /\ call_model(messages[r], Reply("", <<>>)) = <<AIMessage(ApologyText, <<>>)>>
        /\ ApologyText # ""
        /\ \A i \in 1..Len(messages[r]) :
              IsAssistant(messages[r][i]) =>
                  (messages[r][i].content # "" \/ messages[r][i].tool_calls # <<>>)
        /\ pc[r] = "end" =>
              /\ IsAssistant(Last(messages[r]))
              /\ Last(messages[r]).content # ""

\* C33 witness: after an ACTING step the model returned nothing, and the
\* run has ended with the apology.
C33_Witness ==
    /\ pc["stream"] = "end"
    /\ Last(messages["stream"]).content = ApologyText
    /\ Len(messages["stream"]) > 2
    /\ IsTool(messages["stream"][Len(messages["stream"]) - 1])

(* Properties of a repeated complete_todo *)

\* The item or row of that id is there and completed.
CompletedInMemory(td, id) == HasKey(td, id) /\ td[KeyIndex(td, id)].completed
CompletedInTable(d, id) == \E row \in d.rows : row.id = id /\ row.completed

\* complete_todo on a completed item succeeds and returns it completed; the
\* in-memory store is left as it was, and so are the id, the task and the
\* completed flag of every row of the table.
RepeatedCompleteVisible ==
    [][ last'.op = "complete" =>
          /\ CompletedInMemory(_todos, last'.iarg) =>
                /\ ~last'.out.raised
                /\ last'.out.value.items[1].completed
                /\ _todos' = _todos
          /\ CompletedInTable(db, last'.iarg) =>
                /\ ~last'.durable.raised
                /\ last'.durable.value.items[1].completed
                /\ { Visible(row) : row \in db'.rows } = { Visible(row) : row \in db.rows }
      ]_vars

\* C34: complete_todo is idempotent in both stores: on an item that is
\* completed already it succeeds, the item stays completed, and the store
\* is equal to the store before the call.
C34_CompleteIdempotent ==
    [][ last'.op = "complete" =>
          /\ CompletedInMemory(_todos, last'.iarg) =>
                /\ ~last'.out.raised
                /\ last'.out.value.items[1].completed
                /\ _todos' = _todos
          /\ CompletedInTable(db, last'.iarg) =>
                /\ ~last'.durable.raised
                /\ last'.durable.value.items[1].completed
                /\ db'.rows = db.rows
      ]_vars

(* Properties of verify_api_key *)

\* The piece of str from i to j lies between two commas or ends of str.
IsPart(str, i, j) ==
    /\ i = 1 \/ str[i - 1] = ","
    /\ j = Len(str) \/ str[j + 1] = ","
    /\ \A k \in i..j : str[k] # ","

\* key is what is left of that piece without the blanks around it.
IsTrimmed(str, i, j, key) ==
    \E a \in i..(j + 1), b \in (i - 1)..j :
        /\ key = SubSeq(str, a, b)
        /\ \A k \in i..(a - 1) : str[k] = " "
        /\ \A k \in (b + 1)..j : str[k] = " "
        /\ a <= b => (str[a] # " " /\ str[b] # " ")
        /\ a > b => \A k \in i..j : str[k] = " "

\* The keys configured by api_keys: its pieces between commas, trimmed.
ConfiguredKeys(api_keys) ==
    { key \in SeqsUpTo(SettingChars, Len(api_keys)) :
        \E i \in 1..(Len(api_keys) + 1), j \in 0..Len(api_keys) :
            /\ i <= j + 1
            /\ IsPart(api_keys, i, j)
            /\ IsTrimmed(api_keys, i, j, key) }

\* C35: with authentication disabled verify_api_key accepts every request;
\* with authentication enabled it accepts a request exactly when its header
\* X-API-Key carries a key and the key is one of the configured keys, it
\* rejects with 401 otherwise, and with no key configured it rejects all.
C35_VerifyApiKey ==
    (fcall.tool = "verify_api_key" /\ fret # NoOutcome) =>
        LET keyed == /\ fcall.x_api_key.present
                     /\ fcall.x_api_key.value # <<>>
                     /\ fcall.x_api_key.value \in ConfiguredKeys(fcall.api_keys)
        IN  /\ ~fcall.auth_enabled => ~fret.raised
            /\ fcall.auth_enabled => (~fret.raised <=> keyed)
            /\ fret.raised => fret.value.n = 401
            /\ (~fret.raised /\ fcall.auth_enabled) =>
                  fret.value.items = fcall.x_api_key.value
            /\ (fcall.auth_enabled /\ fcall.api_keys = <<>>) => fret.raised

\* C35 witness: the second of two configured keys has been accepted.
C35_Witness ==
    /\ fcall.tool = "verify_api_key"
    /\ fcall.auth_enabled
    /\ fcall.api_keys = <<"a", ",", "b">>
    /\ fcall.x_api_key = HeaderOf(<<"b">>)
    /\ fret # NoOutcome
    /\ ~fret.raised

====
